---- MODULE Spec2Model ----
(***************************************************************************)
(* A model of github.com/xaionaro-go/polyjson: MarshalWithTypeIDs and      *)
(* UnmarshalWithTypeIDs, the reflective JSON codec that wraps the value of *)
(* an interface-typed struct field or map entry as {TypeID: content}.      *)
(*                                                                         *)
(* Go values are modelled relative to their static type:                   *)
(*   int        a natural number                                           *)
(*   interface  <<>> (untyped nil) or <<dynamicType, value>>               *)
(*   pointer    <<>> (nil) or <<pointee>>                                  *)
(*   map, slice [isnil |-> BOOLEAN, m |-> key -> value] / [isnil, s]       *)
(*   struct     the sequence of its field values, in field order           *)
(* JSON text is modelled by its parse tree, objects keeping the order and  *)
(* the repetitions of their members:                                       *)
(*   <<"null">> <<"true">> <<"false">> <<"num", n>> <<"str", s>>           *)
(*   <<"b64", j>>   the JSON string holding the base64 text of j's bytes   *)
(*   <<"arr", <<j1, ...>>>>   <<"obj", << <<key, j>>, ... >>>>             *)
(***************************************************************************)
EXTENDS Integers, Sequences, FiniteSets, TLC

VARIABLES pc, obj, order, enc, data, dst0, res, slot

\* The call stack of one traversal over a value graph that may hold cycles:
\* the function running, the graph, the frames, and how the call stands.
VARIABLES fn, heap, stack, wpc

traversal == <<fn, heap, stack, wpc>>

vars == <<pc, obj, order, enc, data, dst0, res, slot, fn, heap, stack, wpc>>

(***************************************************************************)
(* Bounds of the explored inputs.                                          *)
(***************************************************************************)
MaxInt == 1
MaxKeys == 2
MaxMembers == 2
MaxNodes == 3
MaxJson == 1

Ints == 0..MaxInt
Keys == {"k1", "k2"}

(***************************************************************************)
(* The types the explored values are built from (reflect.Type).            *)
(***************************************************************************)
Fld(name, tag, pkgPath, type) ==
  [name |-> name, tag |-> tag, pkgPath |-> pkgPath, type |-> type]

NoTag == <<"">>

Ty(kind, key, elem, fields, impl) ==
  [kind |-> kind, key |-> key, elem |-> elem, fields |-> fields, impl |-> impl]

TypeNames ==
  {"int", "float64", "string", "bool", "any", "Stringer", "Leaf", "Unreg",
   "PInt", "PAny", "PLeaf", "MapSI", "MapSL", "MapSA", "MapIA", "SliceA",
   "Box", "Clash", "Refs", "Seqs", "Outer"}

TypeDef(t) ==
  CASE t = "int"      -> Ty("int", "", "", <<>>, {})
    [] t = "float64"  -> Ty("float64", "", "", <<>>, {})
    [] t = "string"   -> Ty("string", "", "", <<>>, {})
    [] t = "bool"     -> Ty("bool", "", "", <<>>, {})
    [] t = "any"      -> Ty("interface", "", "", <<>>, TypeNames \cup {"*"})
    [] t = "Stringer" -> Ty("interface", "", "", <<>>, {"PLeaf"})
    [] t = "Leaf"     -> Ty("struct", "", "", <<Fld("A", NoTag, "", "int")>>, {})
    [] t = "Unreg"    -> Ty("struct", "", "", <<Fld("A", NoTag, "", "int")>>, {})
    [] t = "PInt"     -> Ty("ptr", "", "int", <<>>, {})
    [] t = "PAny"     -> Ty("ptr", "", "any", <<>>, {})
    [] t = "PLeaf"    -> Ty("ptr", "", "Leaf", <<>>, {})
    [] t = "MapSI"    -> Ty("map", "string", "int", <<>>, {})
    [] t = "MapSL"    -> Ty("map", "string", "Leaf", <<>>, {})
    [] t = "MapSA"    -> Ty("map", "string", "any", <<>>, {})
    [] t = "MapIA"    -> Ty("map", "int", "any", <<>>, {})
    [] t = "SliceA"   -> Ty("slice", "", "any", <<>>, {})
    [] t = "Box"      -> Ty("struct", "", "",
                            <<Fld("Field", NoTag, "", "any"),
                              Fld("hidden", NoTag, "polyjson_test", "int"),
                              Fld("Skip", <<"-">>, "", "int")>>, {})
    [] t = "Clash"    -> Ty("struct", "", "",
                            <<Fld("X", <<"x", "omitempty">>, "", "int"),
                              Fld("x", NoTag, "polyjson_test", "int")>>, {})
    [] t = "Refs"     -> Ty("struct", "", "",
                            <<Fld("P", NoTag, "", "PAny"),
                              Fld("Q", NoTag, "", "PLeaf")>>, {})
    [] t = "Seqs"     -> Ty("struct", "", "", <<Fld("S", NoTag, "", "SliceA")>>, {})
    [] t = "Outer"    -> Ty("struct", "", "",
                            <<Fld("M", NoTag, "", "MapSI"),
                              Fld("I", NoTag, "", "Stringer")>>, {})
    [] OTHER          -> Ty("invalid", "", "", <<>>, {})

Kind(t) == TypeDef(t).kind
Elem(t) == TypeDef(t).elem
Key(t) == TypeDef(t).key
NumField(t) == Len(TypeDef(t).fields)
Field(t, i) == TypeDef(t).fields[i]

\* reflect.PointerTo: the name of the pointer type to t ("*" when the catalog
\* names none; such a type implements only the empty interface).
PtrTo(t) ==
  IF \E p \in TypeNames : Kind(p) = "ptr" /\ Elem(p) = t
  THEN CHOOSE p \in TypeNames : Kind(p) = "ptr" /\ Elem(p) = t
  ELSE "*"

\* reflect.Type.AssignableTo, for an interface type to.
AssignableTo(t, to) == t \in TypeDef(to).impl

NilIface == <<>>
NilPtr == <<>>
NilMap == [isnil |-> TRUE, m |-> <<>>]
NilSlice == [isnil |-> TRUE, s |-> <<>>]

\* reflect.Zero / reflect.New(t).Elem(): the zero value of a type.
RECURSIVE Zero(_)
Zero(t) ==
  CASE Kind(t) \in {"int", "float64"} -> 0
    [] Kind(t) = "string"    -> <<"str", "">>
    [] Kind(t) = "bool"      -> FALSE
    [] Kind(t) = "interface" -> NilIface
    [] Kind(t) = "ptr"       -> NilPtr
    [] Kind(t) = "map"       -> NilMap
    [] Kind(t) = "slice"     -> NilSlice
    [] Kind(t) = "struct"    -> [i \in 1..NumField(t) |-> Zero(Field(t, i).type)]

(***************************************************************************)
(* The type resolver handed to both calls (TypeIDOfer, NewByTypeIDer). Its *)
(* implementation, the type registry, is not part of the codec: a type's   *)
(* identifier is its name, and a few types are left unregistered.          *)
(***************************************************************************)
Registered == {"int", "Leaf", "PLeaf", "Box", "Outer"}

TypeIDOf(t) ==
  IF t \in Registered THEN [err |-> FALSE, id |-> t] ELSE [err |-> TRUE, id |-> ""]

NewByTypeID(id) ==
  IF id \in Registered
  THEN [err |-> FALSE, type |-> id, ptr |-> <<Zero(id)>>]
  ELSE [err |-> TRUE, type |-> "", ptr |-> NilPtr]

(***************************************************************************)
(* JSON trees, and what encoding/json and gjson do with them.              *)
(***************************************************************************)
JNull == <<"null">>
JNum(n) == <<"num", n>>
JStr(s) == <<"str", s>>
JB64(j) == <<"b64", j>>
JArr(s) == <<"arr", s>>
JObj(members) == <<"obj", members>>

\* Every string that occurs as an object key, in byte order (sort.Strings).
SortedNames ==
  <<"", "0", "1", "2", "3", "A", "Box", "Field", "I", "Leaf", "M", "MapSA", "MapSI",
    "Nope", "Outer", "P", "PLeaf", "Q", "S", "Skip", "Unknown", "X",
    "hidden", "int", "k1", "k2", "x">>

SortKeys(S) == SelectSeq(SortedNames, LAMBDA n : n \in S)

\* strconv.Itoa on the integers of the model.
Itoa(n) == CASE n = 0 -> "0" [] n = 1 -> "1" [] n = 2 -> "2" [] OTHER -> "3"

Ok(b) == [st |-> "ok", b |-> b]
Fail(st) == [st |-> st, b |-> JNull]

\* Value.MapRange: Go leaves the iteration order of a map open; string keys are
\* visited in the order the environment picked, integer keys in ascending order.
MapRange(t, v, ord) ==
  IF Kind(Key(t)) = "string"
  THEN SelectSeq(ord, LAMBDA k : k \in DOMAIN v.m)
  ELSE SelectSeq([i \in 1..(MaxInt + 1) |-> i - 1], LAMBDA k : k \in DOMAIN v.m)

\* The json struct tag as encoding/json reads it.
StdName(f) == IF f.tag[1] # "" THEN f.tag[1] ELSE f.name
StdEmpty(t, v) ==
  CASE Kind(t) \in {"int", "float64"} -> v = 0
    [] Kind(t) = "bool" -> v = FALSE
    [] Kind(t) = "string" -> v = <<"str", "">>
    [] Kind(t) \in {"interface", "ptr"} -> v = <<>>
    [] Kind(t) = "map" -> DOMAIN v.m = {}
    [] Kind(t) = "slice" -> Len(v.s) = 0
    [] OTHER -> FALSE
StdEmits(t, v, i) ==
  LET f == Field(t, i)
  IN  /\ f.pkgPath = ""
      /\ f.tag # <<"-">>
      /\ ~(\E w \in 2..Len(f.tag) : f.tag[w] = "omitempty" /\ StdEmpty(f.type, v[i]))

\* encoding/json.Marshal of a value of static type t: no type identifiers.
RECURSIVE jsonMarshal(_, _)
jsonMarshal(t, v) ==
  CASE Kind(t) \in {"int", "float64"} -> JNum(v)
    [] Kind(t) = "string" -> v
    [] Kind(t) = "bool" -> IF v THEN <<"true">> ELSE <<"false">>
    [] Kind(t) = "interface" -> IF v = NilIface THEN JNull ELSE jsonMarshal(v[1], v[2])
    [] Kind(t) = "ptr" -> IF v = NilPtr THEN JNull ELSE jsonMarshal(Elem(t), v[1])
    [] Kind(t) = "slice" ->
         IF v.isnil THEN JNull
         ELSE JArr([i \in 1..Len(v.s) |-> jsonMarshal(Elem(t), v.s[i])])
    [] Kind(t) = "map" ->
         IF v.isnil THEN JNull
         ELSE LET name(k) == IF Kind(Key(t)) = "string" THEN k ELSE Itoa(k)
                  ks == SortKeys({name(k) : k \in DOMAIN v.m})
                  at(n) == CHOOSE k \in DOMAIN v.m : name(k) = n
              IN  JObj([i \in 1..Len(ks) |-> <<ks[i], jsonMarshal(Elem(t), v.m[at(ks[i])])>>])
    [] Kind(t) = "struct" ->
         LET idx == SelectSeq([i \in 1..NumField(t) |-> i], LAMBDA i : StdEmits(t, v, i))
         IN  JObj([n \in 1..Len(idx) |->
                    <<StdName(Field(t, idx[n])), jsonMarshal(Field(t, idx[n]).type, v[idx[n]])>>])

\* json.Marshal(marshaledFields): a map[string]any whose values are []byte
\* (base64 text), json.RawMessage (the JSON itself) or a one-entry
\* map[TypeID]json.RawMessage; the keys come out sorted.
Bytes(b) == <<"bytes", "", b>>
Raw(b) == <<"raw", "", b>>
Tagged(id, b) == <<"tagged", id, b>>

jsonMarshalAny(e) ==
  CASE e[1] = "bytes" -> JB64(e[3])
    [] e[1] = "raw" -> e[3]
    [] e[1] = "tagged" -> JObj(<< <<e[2], e[3]>> >>)

jsonMarshalFields(marshaledFields) ==
  LET ks == SortKeys(DOMAIN marshaledFields)
  IN  JObj([i \in 1..Len(ks) |-> <<ks[i], jsonMarshalAny(marshaledFields[ks[i]])>>])

Put(f, k, e) == [x \in (DOMAIN f) \cup {k} |-> IF x = k THEN e ELSE f[x]]

\* A key stringified whatever its kind.
stringifyAnyKey(keyType, key) ==
  [err |-> FALSE, s |-> IF Kind(keyType) = "string" THEN key ELSE Itoa(key)]

stringifyMapKey(keyType, key) ==
  IF Kind(keyType) = "string" THEN [err |-> FALSE, s |-> key] ELSE [err |-> TRUE, s |-> ""]

\* The wire name of a struct field: the tag's first word, else the field's name.
jsonFieldName(f) == IF f.tag[1] # "" THEN f.tag[1] ELSE f.name

(***************************************************************************)
(* The encoder. marshal(t, v) is marshal(reflect.Value) for a value v of   *)
(* static type t; t = "invalid" is the zero reflect.Value. The result is   *)
(* [st, b]: st = "ok" and the bytes b, or the error, or "panic".           *)
(***************************************************************************)
RECURSIVE marshal(_, _, _), marshalMapEntries(_, _, _, _, _), marshalStructFields(_, _, _, _, _)

\* The entry of marshaledFields for an encoded map entry: the declared type of
\* the map's values decides whether the content b is wrapped in its TypeID.
marshalMapEntry(slotType, value, b) ==
  IF Kind(slotType) # "interface" \/ value = NilIface
  THEN [st |-> "ok", e |-> Bytes(b)]
  ELSE IF TypeIDOf(value[1]).err THEN [st |-> "err:typeid", e |-> Bytes(b)]
  ELSE [st |-> "ok", e |-> Tagged(TypeIDOf(value[1]).id, b)]

\* A struct field that is never wrapped.
marshalStructFieldBare(slotType, value, b) == [st |-> "ok", e |-> Raw(b)]

\* The same for an encoded struct field.
marshalStructField(slotType, value, b) ==
  IF Kind(slotType) # "interface" \/ value = NilIface
  THEN [st |-> "ok", e |-> Raw(b)]
  ELSE IF TypeIDOf(value[1]).err THEN [st |-> "err:typeid", e |-> Raw(b)]
  ELSE [st |-> "ok", e |-> Tagged(TypeIDOf(value[1]).id, b)]

\* One round of the loop over the map's entries, r being marshal(value).
marshalMapStep(t, key, value, r) ==
  IF stringifyMapKey(Key(t), key).err THEN [st |-> "err:stringify", e |-> Bytes(JNull)]
  ELSE IF r.st # "ok" THEN [st |-> r.st, e |-> Bytes(JNull)]
  ELSE marshalMapEntry(Elem(t), value, r.b)

marshalMapLoop(t, v, ks, marshaledFields, ord, step) ==
  IF step.st # "ok" THEN Fail(step.st)
  ELSE marshalMapEntries(t, v, Tail(ks),
                         Put(marshaledFields, stringifyMapKey(Key(t), Head(ks)).s, step.e), ord)

marshalMapEntries(t, v, ks, marshaledFields, ord) ==
  IF ks = <<>> THEN Ok(jsonMarshalFields(marshaledFields))
  ELSE marshalMapLoop(t, v, ks, marshaledFields, ord,
                      marshalMapStep(t, Head(ks), v.m[Head(ks)],
                                     marshal(Elem(t), v.m[Head(ks)], ord)))

\* One round of the loop over the struct's fields, r being marshal(fV).
marshalStructStep(fT, fV, r) ==
  IF r.st # "ok" THEN [st |-> r.st, e |-> Raw(JNull)]
  ELSE marshalStructField(fT.type, fV, r.b)

marshalStructLoop(t, v, i, marshaledFields, ord, step) ==
  IF step.st # "ok" THEN Fail(step.st)
  ELSE marshalStructFields(t, v, i + 1,
                           Put(marshaledFields, jsonFieldName(Field(t, i)), step.e), ord)

marshalStructFields(t, v, i, marshaledFields, ord) ==
  IF i > NumField(t) THEN Ok(jsonMarshalFields(marshaledFields))
  ELSE IF Field(t, i).pkgPath # "" \/ Field(t, i).tag = <<"-">>
  THEN marshalStructFields(t, v, i + 1, marshaledFields, ord)
  ELSE marshalStructLoop(t, v, i, marshaledFields, ord,
                         marshalStructStep(Field(t, i), v[i],
                                           marshal(Field(t, i).type, v[i], ord)))

marshalInterface(t, v, ord) == IF v = NilIface THEN Ok(JNull) ELSE marshal(v[1], v[2], ord)

marshalPointer(t, v, ord) == IF v = NilPtr THEN Ok(JNull) ELSE marshal(Elem(t), v[1], ord)

marshalSlice(t, v) == Ok(jsonMarshal(t, v))

marshal(t, v, ord) ==
  CASE Kind(t) = "interface" -> marshalInterface(t, v, ord)
    [] Kind(t) = "ptr" -> marshalPointer(t, v, ord)
    [] Kind(t) = "map" -> marshalMapEntries(t, v, MapRange(t, v, ord), <<>>, ord)
    [] Kind(t) = "slice" -> marshalSlice(t, v)
    [] Kind(t) = "struct" -> marshalStructFields(t, v, 1, <<>>, ord)
    [] Kind(t) = "invalid" -> Fail("panic")
    [] OTHER -> Ok(jsonMarshal(t, v))

\* reflect.ValueOf(x) of an `any` argument: its dynamic type and value, or the
\* zero Value for untyped nil.
ValueOf(x) == IF x = NilIface THEN [t |-> "invalid", v |-> <<>>] ELSE [t |-> x[1], v |-> x[2]]

MarshalWithTypeIDs(x, ord) == marshal(ValueOf(x).t, ValueOf(x).v, ord)

(***************************************************************************)
(* gjson: the Result of parsed JSON.                                       *)
(***************************************************************************)
gjsonType(j) ==
  CASE j[1] = "null" -> "Null"
    [] j[1] = "num" -> "Number"
    [] j[1] \in {"str", "b64"} -> "String"
    [] j[1] = "true" -> "True"
    [] j[1] = "false" -> "False"
    [] OTHER -> "JSON"

\* Result.Map: the members of an object by key, a later member replacing an
\* earlier one of the same key; empty for anything that is not an object.
gjsonMap(j) ==
  IF j[1] # "obj" THEN <<>>
  ELSE LET ms == j[2]
           last(k) == CHOOSE i \in 1..Len(ms) :
                        ms[i][1] = k /\ \A i2 \in (i + 1)..Len(ms) : ms[i2][1] # k
       IN  [k \in {ms[i][1] : i \in 1..Len(ms)} |-> ms[last(k)][2]]

\* Result.ForEach: the <<key.Str, value>> pairs the iterator is called with.
\* An object gives its members in order; an array its elements, each with the
\* empty key string; any other value a single call with the value itself.
gjsonForEach(j) ==
  CASE j[1] = "obj" -> j[2]
    [] j[1] = "arr" -> [i \in 1..Len(j[2]) |-> <<"", j[2][i]>>]
    [] OTHER -> << <<"", j>> >>

Res(st, val, news) == [st |-> st, val |-> val, news |-> news]

\* encoding/json.Unmarshal into an interface{}: the generic Go value.
RECURSIVE jsonUnmarshalAny(_)
jsonUnmarshalAny(j) ==
  CASE j[1] = "null" -> NilIface
    [] j[1] = "num" -> <<"float64", j[2]>>
    [] j[1] \in {"str", "b64"} -> <<"string", j>>
    [] j[1] = "true" -> <<"bool", TRUE>>
    [] j[1] = "false" -> <<"bool", FALSE>>
    [] j[1] = "arr" ->
         <<"SliceA", [isnil |-> FALSE, s |-> [i \in 1..Len(j[2]) |-> jsonUnmarshalAny(j[2][i])]]>>
    [] j[1] = "obj" ->
         <<"MapSA", [isnil |-> FALSE,
                     m |-> [k \in DOMAIN gjsonMap(j) |-> jsonUnmarshalAny(gjsonMap(j)[k])]]>>

\* encoding/json.Unmarshal(raw, &cur) for the kinds the decoder hands over to
\* it: scalars and slices. JSON null leaves a scalar alone.
jsonUnmarshal(t, cur, j) ==
  CASE Kind(t) \in {"int", "float64"} ->
         IF j[1] = "num" THEN Res("ok", j[2], <<>>)
         ELSE IF j[1] = "null" THEN Res("ok", cur, <<>>) ELSE Res("err:json", cur, <<>>)
    [] Kind(t) = "string" ->
         IF j[1] \in {"str", "b64"} THEN Res("ok", j, <<>>)
         ELSE IF j[1] = "null" THEN Res("ok", cur, <<>>) ELSE Res("err:json", cur, <<>>)
    [] Kind(t) = "bool" ->
         IF j[1] \in {"true", "false"} THEN Res("ok", j[1] = "true", <<>>)
         ELSE IF j[1] = "null" THEN Res("ok", cur, <<>>) ELSE Res("err:json", cur, <<>>)
    [] Kind(t) = "slice" /\ Kind(Elem(t)) = "interface" ->
         IF j[1] = "arr" THEN Res("ok", jsonUnmarshalAny(j)[2], <<>>)
         ELSE IF j[1] = "null" THEN Res("ok", NilSlice, <<>>) ELSE Res("err:json", cur, <<>>)
    [] OTHER -> Res("err:json", cur, <<>>)

unstringifyMapKey(keyType, s) ==
  IF Kind(keyType) = "string" THEN [err |-> FALSE, key |-> s] ELSE [err |-> TRUE, key |-> s]

\* indexMap: wire name -> field index, over every field not tagged "-"; a later
\* field replaces an earlier one of the same wire name.
indexMap(t) ==
  LET in == {i \in 1..NumField(t) : Field(t, i).tag # <<"-">>}
      last(name) == CHOOSE i \in in : /\ jsonFieldName(Field(t, i)) = name
                                      /\ \A i2 \in in : jsonFieldName(Field(t, i2)) = name => i2 <= i
  IN  [name \in {jsonFieldName(Field(t, i)) : i \in in} |-> last(name)]

(***************************************************************************)
(* The decoder. unmarshal(o, n, t, val, canSet) is unmarshal(obj, v) for a *)
(* reflect.Value v of the type "n pointers to t" holding val, canSet       *)
(* telling whether v is addressable. The result is [st, val, news]: the    *)
(* outcome, what v holds afterwards (also after a failure, which leaves    *)
(* the destination partly written), and the NewByTypeID calls made.        *)
(***************************************************************************)
RECURSIVE unmarshal(_, _, _, _, _), unmarshalTo(_, _, _),
          unmarshalMapEntries(_, _, _, _), unmarshalStructFields(_, _, _, _)

\* One round of the loop over the JSON members for a map, r being the decode
\* of the member's value into a zero value of the map's element type.
unmarshalMapLoop(t, v, ms, news, r) ==
  IF unstringifyMapKey(Key(t), Head(ms)[1]).err THEN Res("err:unstringify", v, news)
  ELSE IF r.st # "ok" THEN Res(r.st, v, news \o r.news)
  ELSE unmarshalMapEntries(t, [isnil |-> FALSE, m |-> Put(v.m, Head(ms)[1], r.val)],
                           Tail(ms), news \o r.news)

unmarshalMapEntries(t, v, ms, news) ==
  IF ms = <<>> THEN Res("ok", v, news)
  ELSE unmarshalMapLoop(t, v, ms, news, unmarshalTo(Elem(t), Zero(Elem(t)), Head(ms)[2]))

\* The map case without the deletion of the entries.
unmarshalMapKeep(o, t, v) == unmarshalMapEntries(t, v, gjsonForEach(o), <<>>)

\* The map case: every entry is deleted, then the members are inserted.
unmarshalMap(o, t, v) ==
  unmarshalMapEntries(t, [isnil |-> v.isnil, m |-> <<>>], gjsonForEach(o), <<>>)

\* One round of the loop over the JSON members for a struct, r being the
\* decode of the member's value into the field found for its key.
unmarshalStructLoop(t, v, ms, news, fieldIndex, r) ==
  IF r.st # "ok" THEN Res(r.st, [v EXCEPT ![fieldIndex] = r.val], news \o r.news)
  ELSE unmarshalStructFields(t, [v EXCEPT ![fieldIndex] = r.val], Tail(ms), news \o r.news)

unmarshalStructFields(t, v, ms, news) ==
  IF ms = <<>> THEN Res("ok", v, news)
  ELSE IF Head(ms)[1] \notin DOMAIN indexMap(t)
  THEN unmarshalStructFields(t, v, Tail(ms), news)
  ELSE IF Field(t, indexMap(t)[Head(ms)[1]]).pkgPath # ""
  THEN unmarshalStructFields(t, v, Tail(ms), news)
  ELSE unmarshalStructLoop(t, v, ms, news, indexMap(t)[Head(ms)[1]],
                           unmarshalTo(Field(t, indexMap(t)[Head(ms)[1]]).type,
                                       v[indexMap(t)[Head(ms)[1]]], Head(ms)[2]))

unmarshalStruct(o, t, v) == unmarshalStructFields(t, v, gjsonForEach(o), <<>>)

\* v.Kind() != reflect.Pointer: the error's text calls v.Interface(), which
\* panics on the zero Value.
unmarshalNotPointer(t, val) ==
  IF Kind(t) = "invalid" THEN Res("panic", val, <<>>) ELSE Res("err:notptr", val, <<>>)

\* The case of the switch on v.Elem().Kind() for an interface: v.Elem() itself
\* is handed on as the destination.
unmarshalInterface(o, en, et, cur) == unmarshal(o, en, et, cur, TRUE)

\* The switch on v.Elem().Kind(), v.Elem() being of the type "en pointers to
\* et" and holding cur.
unmarshalElem(o, en, et, cur) ==
  CASE en = 0 /\ Kind(et) = "interface" -> unmarshalInterface(o, en, et, cur)
    [] en > 0 \/ Kind(et) = "ptr" -> unmarshal(o, en, et, cur, TRUE)
    [] en = 0 /\ Kind(et) = "map" -> unmarshalMap(o, et, cur)
    [] en = 0 /\ Kind(et) = "struct" -> unmarshalStruct(o, et, cur)
    [] OTHER -> jsonUnmarshal(et, cur, o)

\* What the pointer v holds after the call: its pointee as the call left it.
Pointing(r) == Res(r.st, <<r.val>>, r.news)

unmarshal(o, n, t, val, canSet) ==
  IF n = 0 /\ Kind(t) # "ptr" THEN unmarshalNotPointer(t, val)
  ELSE IF val = NilPtr /\ ~canSet THEN Res("panic", val, <<>>)
  ELSE Pointing(unmarshalElem(o,
                              IF n > 0 THEN n - 1 ELSE 0,
                              IF n > 0 THEN t ELSE Elem(t),
                              IF val # NilPtr THEN val[1]
                              ELSE IF n > 1 THEN NilPtr
                              ELSE Zero(IF n > 0 THEN t ELSE Elem(t))))

\* How unmarshalTo ends for an interface slot once the content is decoded
\* into the instance NewByTypeID made (r): the instance itself, or the
\* pointer to it, whichever the slot's type takes.
unmarshalToAssign(outType, out, type, r, news) ==
  IF r.st # "ok" THEN Res(r.st, out, news \o r.news)
  ELSE IF AssignableTo(type, outType) THEN Res("ok", <<type, r.val[1]>>, news \o r.news)
  ELSE IF AssignableTo(PtrTo(type), outType)
  THEN Res("ok", <<PtrTo(type), r.val>>, news \o r.news)
  ELSE Res("err:assign", out, news \o r.news)

unmarshalToNew(outType, out, typeID, valueUnparsed, typedValuePtr) ==
  IF typedValuePtr.err THEN Res("err:newbytypeid", out, <<typeID>>)
  ELSE unmarshalToAssign(outType, out, typedValuePtr.type,
                         unmarshal(valueUnparsed, 1, typedValuePtr.type, typedValuePtr.ptr, FALSE),
                         <<typeID>>)

\* A wrapper accepted with any number of keys but none.
unmarshalToWrapperAnyKey(outType, out, m) ==
  IF DOMAIN m = {} THEN Res("err:wrapper", out, <<>>)
  ELSE unmarshalToNew(outType, out, CHOOSE k \in DOMAIN m : TRUE,
                      m[CHOOSE k \in DOMAIN m : TRUE],
                      NewByTypeID(CHOOSE k \in DOMAIN m : TRUE))

unmarshalToWrapper(outType, out, m) ==
  IF Cardinality(DOMAIN m) # 1 THEN Res("err:wrapper", out, <<>>)
  ELSE unmarshalToNew(outType, out, CHOOSE k \in DOMAIN m : TRUE,
                      m[CHOOSE k \in DOMAIN m : TRUE],
                      NewByTypeID(CHOOSE k \in DOMAIN m : TRUE))

unmarshalToInterface(outType, out, value) ==
  IF gjsonType(value) = "Null" THEN Res("ok", Zero(outType), <<>>)
  ELSE unmarshalToWrapper(outType, out, gjsonMap(value))

\* What the slot holds after the call, decoded through the pointer to it.
Pointee(r) == Res(r.st, r.val[1], r.news)

unmarshalTo(outType, out, value) ==
  IF Kind(outType) = "ptr" /\ gjsonType(value) = "Null"
  THEN Res("ok", Zero(outType), <<>>)
  ELSE IF Kind(outType) = "interface" THEN unmarshalToInterface(outType, out, value)
  ELSE Pointee(unmarshal(value, 1, outType, <<out>>, FALSE))

\* The destination argument `dst any`: [n, t, val] is a value of the type
\* "n pointers to t"; t = "invalid" is the untyped nil.
UnmarshalWithTypeIDs(b, dst) == unmarshal(b, dst.n, dst.t, dst.val, FALSE)

(***************************************************************************)
(* The explored inputs.                                                    *)
(***************************************************************************)
\* The dynamic types met in an interface slot, d levels of interface deep.
DynOf(t, d) ==
  IF t = "any"
  THEN (IF d > 1 THEN {"int", "Leaf", "PLeaf", "MapSI", "Unreg", "Outer"}
                 ELSE {"int", "Leaf"})
  ELSE TypeDef(t).impl

KeysOf(t) == IF Kind(Key(t)) = "string" THEN Keys ELSE Ints
KeySets(t) == {S \in SUBSET KeysOf(t) : Cardinality(S) <= MaxKeys}

\* The values of type t, interfaces nested d deep; the entries of a map and
\* the elements of a slice hold interfaces one deep.
RECURSIVE Vals(_, _), FieldVals(_, _, _)
Vals(t, d) ==
  CASE Kind(t) \in {"int", "float64"} -> Ints
    [] Kind(t) = "interface" ->
         {NilIface} \cup
         (IF d = 0 THEN {}
          ELSE UNION {{<<dt, v>> : v \in Vals(dt, d - 1)} : dt \in DynOf(t, d)})
    [] Kind(t) = "ptr" -> {NilPtr} \cup {<<v>> : v \in Vals(Elem(t), d)}
    [] Kind(t) = "map" ->
         {NilMap} \cup
         {[isnil |-> FALSE, m |-> f] :
            f \in UNION {[S -> Vals(Elem(t), IF d > 1 THEN 1 ELSE d)] : S \in KeySets(t)}}
    [] Kind(t) = "slice" ->
         {NilSlice} \cup
         {[isnil |-> FALSE, s |-> f] :
            f \in UNION {[1..n -> Vals(Elem(t), IF d > 1 THEN 1 ELSE d)] : n \in 0..MaxKeys}}
    [] Kind(t) = "struct" -> FieldVals(t, 1, d)

FieldVals(t, i, d) ==
  IF i > NumField(t) THEN {<<>>}
  ELSE {<<x>> \o rest : x \in Vals(Field(t, i).type, d), rest \in FieldVals(t, i + 1, d)}

ObjTypes ==
  {"int", "Leaf", "PLeaf", "PAny", "MapSI", "MapSL", "MapSA", "MapIA", "SliceA",
   "Box", "Clash", "Refs", "Seqs", "Outer"}

\* The arguments of MarshalWithTypeIDs: an `any`.
Objs == {NilIface} \cup UNION {{<<t, v>> : v \in Vals(t, 2)} : t \in ObjTypes}

Orders == {s \in [1..Cardinality(Keys) -> Keys] : \A i, j \in DOMAIN s : s[i] = s[j] => i = j}

\* A populated value of a type: what a destination may hold before a decode.
RECURSIVE Populated(_)
Populated(t) ==
  CASE Kind(t) \in {"int", "float64"} -> 1
    [] Kind(t) = "interface" -> <<"PLeaf", <<<<1>>>>>>
    [] Kind(t) = "ptr" -> <<Populated(Elem(t))>>
    [] Kind(t) = "map" ->
         [isnil |-> FALSE,
          m |-> [k \in {IF Kind(Key(t)) = "string" THEN "k1" ELSE 1} |-> Populated(Elem(t))]]
    [] Kind(t) = "slice" -> NilSlice
    [] Kind(t) = "struct" -> [i \in 1..NumField(t) |-> Populated(Field(t, i).type)]

Priors(t) ==
  {Zero(t), Populated(t)} \cup
  (IF Kind(t) = "map" THEN {[isnil |-> FALSE, m |-> <<>>]} ELSE {})

D(n, t, val) == [n |-> n, t |-> t, val |-> val]

NoDst == D(0, "invalid", <<>>)

DstTypes ==
  {"int", "any", "Leaf", "PLeaf", "PAny", "MapSI", "MapSL", "MapSA", "MapIA",
   "SliceA", "Box", "Clash", "Refs", "Seqs", "Outer"}

\* The destinations that are no usable pointer: untyped nil, values that are
\* not pointers, nil pointers.
BadDsts ==
  {NoDst, D(0, "int", 1), D(0, "Leaf", <<0>>), D(0, "MapSA", Populated("MapSA")),
   D(0, "PLeaf", NilPtr), D(1, "Box", NilPtr), D(1, "MapSA", NilPtr)}

GoodDsts == UNION {{D(1, t, <<v>>) : v \in Priors(t)} : t \in DstTypes}

Wrap(id, j) == JObj(<< <<id, j>> >>)
LeafJ(n) == JObj(<< <<"A", JNum(n)>> >>)

IfaceJsons ==
  {JNull, JNum(1), JStr("s"), JArr(<<>>), JObj(<<>>),
   Wrap("Leaf", LeafJ(1)), Wrap("int", JNum(1)), Wrap("Nope", JNum(1)),
   Wrap("int", JStr("s")),
   JObj(<< <<"Leaf", LeafJ(1)>>, <<"int", JNum(1)>> >>),
   JObj(<< <<"Leaf", LeafJ(0)>>, <<"Leaf", LeafJ(1)>> >>)}

\* Sequences of at most MaxMembers members drawn from a pool.
Objects(pool) == {JObj(ms) : ms \in UNION {[1..n -> pool] : n \in 0..MaxMembers}}

\* The JSON tried as the value of a member, for a slot of type t.
RECURSIVE MemberJsons(_)
MemberJsons(t) ==
  CASE Kind(t) = "interface" ->
         {JNull, JNum(1), Wrap("Leaf", LeafJ(1)), Wrap("Nope", JNum(1))}
    [] Kind(t) = "int" -> {JNull, JNum(1), JStr("s")}
    [] Kind(t) = "ptr" -> MemberJsons(Elem(t))
    [] Kind(t) = "slice" -> {JNull, JNum(1), JArr(<<JNum(1), Wrap("Leaf", LeafJ(1))>>)}
    [] t = "Leaf" -> {JNull, JObj(<<>>), LeafJ(1)}
    [] t = "MapSI" -> {JNull, JObj(<<>>), JObj(<< <<"k2", JNum(1)>> >>)}
    [] OTHER -> {JNull}

RECURSIVE SlotJsons(_), Members(_)
SlotJsons(t) ==
  CASE Kind(t) = "interface" -> IfaceJsons
    [] Kind(t) = "int" -> {JNull, JNum(1), JStr("s")}
    [] Kind(t) = "ptr" -> SlotJsons(Elem(t))
    [] Kind(t) = "slice" -> {JNull, JNum(1), JArr(<<>>), JArr(<<JNum(1), Wrap("Leaf", LeafJ(1))>>)}
    [] OTHER -> {JNull, JNum(1), JArr(<<JNum(1)>>)} \cup Objects(Members(t))

\* The members tried on a map or struct destination: its own keys with values
\* for the slot's type, and keys it does not know.
Members(t) ==
  IF Kind(t) = "map"
  THEN {<<k, j>> : k \in (IF Kind(Key(t)) = "string" THEN Keys ELSE {"0", "1"}),
                   j \in MemberJsons(Elem(t))}
  ELSE UNION {{<<k, j>> : j \in MemberJsons(Field(t, indexMap(t)[k]).type)} :
                k \in DOMAIN indexMap(t)}
       \cup {<<k, JNum(1)>> : k \in {Field(t, i).name : i \in 1..NumField(t)} \cup {"Unknown"}}

(***************************************************************************)
(* The calls.                                                              *)
(***************************************************************************)
NoEnc == Fail("none")
NoRes == Res("none", <<>>, <<>>)
NoSlot == [t |-> "int", out |-> 0, value |-> JNull, r |-> NoRes]

Init ==
  /\ pc = "idle"
  /\ obj = NilIface
  /\ order = <<>>
  /\ enc = NoEnc
  /\ data = JNull
  /\ dst0 = NoDst
  /\ res = NoRes
  /\ slot = NoSlot
  /\ fn = "none"
  /\ heap = <<>>
  /\ stack = <<>>
  /\ wpc = "idle"

\* b, err := MarshalWithTypeIDs(x, resolver)
Marshal ==
  /\ pc = "idle"
  /\ \E x \in Objs, ord \in Orders :
       /\ obj' = x
       /\ order' = ord
       /\ enc' = MarshalWithTypeIDs(x, ord)
  /\ pc' = "marshalled"
  /\ UNCHANGED <<data, dst0, res, slot>>
  /\ UNCHANGED traversal

\* var cpy T; err := UnmarshalWithTypeIDs(b, &cpy, resolver), b the encoder's
\* output for a value of type T.
UnmarshalEncoded ==
  /\ pc = "marshalled"
  /\ enc.st = "ok"
  /\ obj # NilIface
  /\ data' = enc.b
  /\ dst0' = D(1, obj[1], <<Zero(obj[1])>>)
  /\ res' = UnmarshalWithTypeIDs(enc.b, D(1, obj[1], <<Zero(obj[1])>>))
  /\ pc' = "roundtrip"
  /\ UNCHANGED <<obj, order, enc, slot>>
  /\ UNCHANGED traversal

\* err := UnmarshalWithTypeIDs(b, dst, resolver), for any bytes and destination.
Unmarshal ==
  /\ pc = "idle"
  /\ \E d \in BadDsts \cup GoodDsts :
       \E b \in (IF d.t = "invalid" THEN {JNull, JObj(<<>>)} ELSE SlotJsons(d.t)) :
         /\ data' = b
         /\ dst0' = d
         /\ res' = UnmarshalWithTypeIDs(b, d)
  /\ pc' = "decoded"
  /\ UNCHANGED <<obj, order, enc, slot>>
  /\ UNCHANGED traversal

SlotTypes == {"any", "Stringer", "PAny", "PLeaf", "int"}

\* err := unmarshalTo(out, outType, value, resolver), the decode of one field
\* or map entry.
UnmarshalTo ==
  /\ pc = "idle"
  /\ \E t \in SlotTypes : \E out \in Priors(t), value \in SlotJsons(t) :
       slot' = [t |-> t, out |-> out, value |-> value, r |-> unmarshalTo(t, out, value)]
  /\ pc' = "slot"
  /\ UNCHANGED <<obj, order, enc, data, dst0, res>>
  /\ UNCHANGED traversal

Next == Marshal \/ UnmarshalEncoded \/ Unmarshal \/ UnmarshalTo

Spec == Init /\ [][Next]_vars

(***************************************************************************)
(* The traversals, call by call. A value graph is a heap of cells: a cell  *)
(* is an int, a pointer (ref = 0: nil), an interface (ref: the value it    *)
(* holds, 0: none), a struct of one field (ref: the field's cell) or a map *)
(* of at most one entry (ref: the entry's value, 0: no entry). A struct    *)
(* holds its field and an interface its value in place, so every cycle of  *)
(* a graph passes through a pointer or a map.                              *)
(***************************************************************************)
Nodes == 1..MaxNodes

Cells ==
  {[kind |-> "int", ref |-> 0]}
  \cup {[kind |-> k, ref |-> r] : k \in {"ptr", "interface", "map"}, r \in 0..MaxNodes}
  \cup {[kind |-> "struct", ref |-> r] : r \in Nodes}

\* The cell reached from n after k steps through structs and interfaces only.
RECURSIVE InPlace(_, _, _)
InPlace(h, n, k) ==
  IF n = 0 \/ k = 0 THEN n
  ELSE IF h[n].kind \in {"struct", "interface"} THEN InPlace(h, h[n].ref, k - 1)
  ELSE 0

Heaps == {h \in [Nodes -> Cells] : \A n \in Nodes : InPlace(h, n, MaxNodes) = 0}

\* A stack deep enough for every traversal of the explored inputs that ends;
\* the Go runtime kills the process when a goroutine's stack outgrows its limit.
MaxStack == (MaxJson + 1) * MaxNodes + 1

\* A frame: marshal(v) for the cell n, or unmarshal(obj, v) with v pointing to
\* the cell n and obj a JSON text of k nested objects; called tells whether
\* the frame's recursive call was made.
Frame(n, k) == [n |-> n, k |-> k, called |-> FALSE]
Top == stack[Len(stack)]

\* marshal: what the frame does next.
marshalNext(h, f) ==
  IF h[f.n].kind \in {"interface", "ptr", "map", "struct"} /\ h[f.n].ref # 0
  THEN [act |-> "call", n |-> h[f.n].ref, k |-> 0]
  ELSE [act |-> "return", n |-> 0, k |-> 0]

\* unmarshalTo for a struct's field cell c and a member's value of k nested
\* objects: an interface field is filled with a fresh instance, after the
\* wrapper check; any other field is decoded through its address.
unmarshalToNext(h, c, k) ==
  IF h[c].kind = "interface"
  THEN [act |-> IF k = 0 THEN "error" ELSE "return", n |-> 0, k |-> 0]
  ELSE [act |-> "call", n |-> c, k |-> k]

\* unmarshal: what the frame does next. A nil pointer is filled with a fresh
\* value and the entries of a map are fresh values: their decode ends with
\* the JSON text.
unmarshalNext(h, f) ==
  CASE h[f.n].kind = "interface" -> [act |-> "error", n |-> 0, k |-> 0]
    [] h[f.n].kind = "ptr" ->
         IF h[f.n].ref = 0 THEN [act |-> "return", n |-> 0, k |-> 0]
         ELSE [act |-> "call", n |-> h[f.n].ref, k |-> f.k]
    [] h[f.n].kind = "map" -> [act |-> "return", n |-> 0, k |-> 0]
    [] h[f.n].kind = "struct" ->
         IF f.k = 0 THEN [act |-> "return", n |-> 0, k |-> 0]
         ELSE unmarshalToNext(h, h[f.n].ref, f.k - 1)
    [] OTHER -> [act |-> IF f.k = 0 THEN "return" ELSE "error", n |-> 0, k |-> 0]

StepOf(h, f) == IF fn = "marshal" THEN marshalNext(h, f) ELSE unmarshalNext(h, f)

\* MarshalWithTypeIDs(obj, resolver) is called on a cell of a graph.
CallMarshal ==
  /\ wpc = "idle"
  /\ \E h \in Heaps, r \in Nodes :
       /\ heap' = h
       /\ stack' = <<Frame(r, 0)>>
  /\ fn' = "marshal"
  /\ wpc' = "running"
  /\ UNCHANGED <<pc, obj, order, enc, data, dst0, res, slot>>

\* UnmarshalWithTypeIDs(b, dst, resolver) is called with a non-nil pointer
\* into a graph and a JSON text of k nested objects.
CallUnmarshal ==
  /\ wpc = "idle"
  /\ \E h \in Heaps, r \in Nodes, k \in 0..MaxJson :
       /\ h[r].kind = "ptr" /\ h[r].ref # 0
       /\ heap' = h
       /\ stack' = <<Frame(h[r].ref, k)>>
  /\ fn' = "unmarshal"
  /\ wpc' = "running"
  /\ UNCHANGED <<pc, obj, order, enc, data, dst0, res, slot>>

\* The frame on top makes its recursive call.
Recurse ==
  /\ wpc = "running"
  /\ ~Top.called
  /\ StepOf(heap, Top).act = "call"
  /\ Len(stack) < MaxStack
  /\ stack' = [stack EXCEPT ![Len(stack)].called = TRUE]
                \o <<Frame(StepOf(heap, Top).n, StepOf(heap, Top).k)>>
  /\ UNCHANGED <<fn, heap, wpc, pc, obj, order, enc, data, dst0, res, slot>>

\* The frame on top returns to its caller; the last frame ends the call.
Return ==
  /\ wpc = "running"
  /\ Top.called \/ StepOf(heap, Top).act = "return"
  /\ stack' = SubSeq(stack, 1, Len(stack) - 1)
  /\ wpc' = IF Len(stack) = 1 THEN "returned" ELSE "running"
  /\ UNCHANGED <<fn, heap, pc, obj, order, enc, data, dst0, res, slot>>

\* The frame on top returns an error, which every caller passes on: the
\* decoder's own errors, and the resolver's refusal of the value met in an
\* interface-typed field or entry.
ReturnError ==
  /\ wpc = "running"
  /\ \/ ~Top.called /\ StepOf(heap, Top).act = "error"
     \/ /\ fn = "marshal" /\ Top.called
        /\ heap[Top.n].kind \in {"struct", "map"}
        /\ heap[heap[Top.n].ref].kind = "interface"
        /\ heap[heap[Top.n].ref].ref # 0
  /\ stack' = <<>>
  /\ wpc' = "error"
  /\ UNCHANGED <<fn, heap, pc, obj, order, enc, data, dst0, res, slot>>

\* The recursion outgrows the stack: the runtime ends the process with
\* "fatal error: stack overflow"; the call neither returns nor fails.
StackOverflow ==
  /\ wpc = "running"
  /\ ~Top.called
  /\ StepOf(heap, Top).act = "call"
  /\ Len(stack) = MaxStack
  /\ wpc' = "overflow"
  /\ UNCHANGED <<fn, heap, stack, pc, obj, order, enc, data, dst0, res, slot>>

\* The steps of a call under way.
Step == Recurse \/ Return \/ ReturnError \/ StackOverflow

NextCall == CallMarshal \/ CallUnmarshal \/ Step

\* A call under way that can take a step takes it: the goroutine runs on.
SpecCall == Init /\ [][NextCall]_vars /\ WF_vars(Step)

(***************************************************************************)
(* Properties.                                                             *)
(***************************************************************************)
KeySet(j) == {j[2][i][1] : i \in 1..Len(j[2])}
IsObject(j) == j[1] = "obj"
\* The value of the last member of object j under key k.
Member(j, k) ==
  j[2][CHOOSE i \in 1..Len(j[2]) :
         j[2][i][1] = k /\ \A i2 \in (i + 1)..Len(j[2]) : j[2][i2][1] # k][2]

Marshalled == pc \in {"marshalled", "roundtrip"} /\ obj # NilIface
Encoded == Marshalled /\ enc.st = "ok"
\* A decode into a usable destination: a non-nil pointer to a value of type t.
DecodedInto(t) == pc = "decoded" /\ dst0.n = 1 /\ dst0.t = t /\ dst0.val # NilPtr

\* A field the encoder emits, and the field it emits under a wire name.
Emitted(t, i) == Field(t, i).pkgPath = "" /\ Field(t, i).tag # <<"-">>
EmittedAs(t, name) ==
  CHOOSE i \in 1..NumField(t) :
    /\ Emitted(t, i) /\ jsonFieldName(Field(t, i)) = name
    /\ \A i2 \in (i + 1)..NumField(t) :
         ~(Emitted(t, i2) /\ jsonFieldName(Field(t, i2)) = name)

\* A value the wire format can carry in full: every interface value present
\* and of a registered type, no nil pointer, no nil or empty map, no slice,
\* and nothing stored in a field that is kept off the wire.
RECURSIVE Reproducible(_, _)
Reproducible(t, v) ==
  CASE Kind(t) = "interface" ->
         v # NilIface /\ v[1] \in Registered /\ Reproducible(v[1], v[2])
    [] Kind(t) = "ptr" -> v # NilPtr /\ Reproducible(Elem(t), v[1])
    [] Kind(t) = "map" ->
         /\ ~v.isnil /\ DOMAIN v.m # {}
         /\ \A k \in DOMAIN v.m : Reproducible(Elem(t), v.m[k])
    [] Kind(t) = "struct" ->
         \A i \in 1..NumField(t) :
           IF Emitted(t, i) THEN Reproducible(Field(t, i).type, v[i])
           ELSE v[i] = Zero(Field(t, i).type)
    [] Kind(t) = "slice" -> FALSE
    [] OTHER -> TRUE

\* C1: a container (a struct, a string-keyed map) whose interface-declared
\* slots hold values of registered types is encoded without error, and
\* decoding the bytes into a fresh destination of the container's type
\* succeeds and gives a value deeply equal to the original.
C1_RoundTrip ==
  (Marshalled /\ obj[1] \in {"Box", "MapSA"} /\ Reproducible(obj[1], obj[2])) =>
    /\ enc.st = "ok"
    /\ pc = "roundtrip" => (res.st = "ok" /\ res.val = <<obj[2]>>)

IsWrapper(j) == IsObject(j) /\ Len(j[2]) = 1 /\ j[2][1][1] \in Registered

RECURSIVE NoWrapperInside(_)
NoWrapperInside(j) ==
  /\ ~IsWrapper(j)
  /\ j[1] \in {"obj", "arr"} =>
       \A i \in 1..Len(j[2]) : NoWrapperInside(IF IsObject(j) THEN j[2][i][2] ELSE j[2][i])

\* The output position j holds the encoding of v, of declared type t; atSlot
\* tells whether the position is a struct field or a map entry. A wrapper is
\* there exactly when the position is such a slot, t is an interface type and
\* v is present, and it is keyed by the TypeID of v's dynamic type.
RECURSIVE TagPlacement(_, _, _, _)
TagPlacement(t, v, j, atSlot) ==
  IF atSlot /\ Kind(t) = "interface" /\ v # NilIface
  THEN /\ IsObject(j) /\ Len(j[2]) = 1
       /\ ~TypeIDOf(v[1]).err /\ j[2][1][1] = TypeIDOf(v[1]).id
       /\ TagPlacement(v[1], v[2], j[2][1][2], FALSE)
  ELSE /\ ~IsWrapper(j)
       /\ CASE Kind(t) = "interface" /\ v # NilIface -> TagPlacement(v[1], v[2], j, FALSE)
            [] Kind(t) = "ptr" /\ v # NilPtr -> TagPlacement(Elem(t), v[1], j, FALSE)
            [] Kind(t) = "map" /\ IsObject(j) ->
                 \A i \in 1..Len(j[2]) :
                   TagPlacement(Elem(t), v.m[j[2][i][1]], j[2][i][2], TRUE)
            [] Kind(t) = "struct" /\ IsObject(j) ->
                 \A i \in 1..Len(j[2]) :
                   TagPlacement(Field(t, EmittedAs(t, j[2][i][1])).type,
                                v[EmittedAs(t, j[2][i][1])], j[2][i][2], TRUE)
            [] Kind(t) = "slice" -> NoWrapperInside(j)
            [] OTHER -> TRUE

\* C2: in the encoder's output a {TypeID: content} wrapper stands at a position
\* if and only if the position is a struct field or map entry whose declared
\* type is an interface and whose value is present; never at the top-level
\* argument, behind a pointer, or inside a slice.
C2_TagPlacement == Encoded => TagPlacement(obj[1], obj[2], enc.b, FALSE)

\* A struct was encoded whose interface field holds a struct with a map and
\* a present interface field of its own.
C2_Witness ==
  /\ Encoded /\ obj[1] = "Box"
  /\ obj[2][1] # NilIface /\ obj[2][1][1] = "Outer"
  /\ DOMAIN obj[2][1][2][1].m # {}
  /\ obj[2][1][2][2] # NilIface

\* C3: a map whose declared value type is not an interface is encoded as the
\* JSON object of its stringified keys, each member being exactly the JSON of
\* the recursively encoded entry, so that decoding it gives the entries back.
C3_PlainEmbedding ==
  (Marshalled /\ obj[1] \in {"MapSI", "MapSL"}) =>
    /\ enc.st = "ok"
    /\ enc.b = JObj([i \in 1..Cardinality(DOMAIN obj[2].m) |->
                      <<SortKeys(DOMAIN obj[2].m)[i],
                        marshal(Elem(obj[1]), obj[2].m[SortKeys(DOMAIN obj[2].m)[i]], order).b>>])
    /\ pc = "roundtrip" => (res.st = "ok" /\ res.val[1].m = obj[2].m)

\* C4: an interface-declared struct field or map entry holding no value is
\* encoded as the JSON null, and decoding null into such a slot sets it to
\* its empty state without error, whatever it held.
C4_AbsentRoundTrip ==
  /\ (Encoded /\ obj[1] = "Box" /\ obj[2][1] = NilIface) =>
       /\ Member(enc.b, "Field") = JNull
       /\ pc = "roundtrip" => (res.st = "ok" /\ res.val[1][1] = NilIface)
  /\ (Encoded /\ obj[1] = "MapSA") =>
       \A k \in DOMAIN obj[2].m :
         obj[2].m[k] = NilIface =>
           /\ Member(enc.b, k) = JNull
           /\ pc = "roundtrip" =>
                (res.st = "ok" /\ k \in DOMAIN res.val[1].m /\ res.val[1].m[k] = NilIface)
  /\ (pc = "slot" /\ Kind(slot.t) = "interface" /\ slot.value = JNull) =>
       (slot.r.st = "ok" /\ slot.r.val = NilIface)

\* C5: decoding into an interface-declared slot a JSON value that is neither
\* null nor an object with exactly one key fails with the wrapper error,
\* NewByTypeID is never called and the slot keeps what it held.
C5_MalformedWrapper ==
  (/\ pc = "slot" /\ Kind(slot.t) = "interface"
   /\ slot.value # JNull
   /\ ~(IsObject(slot.value) /\ Cardinality(KeySet(slot.value)) = 1)) =>
    /\ slot.r.st = "err:wrapper"
    /\ slot.r.news = <<>>
    /\ slot.r.val = slot.out

\* An object of two keys was decoded into an interface slot that held a value.
C5_Witness ==
  /\ pc = "slot" /\ Kind(slot.t) = "interface" /\ slot.out # NilIface
  /\ IsObject(slot.value) /\ Cardinality(KeySet(slot.value)) = 2
  /\ slot.r.st = "err:wrapper"

\* C6: after a JSON object is decoded without error into a string-keyed map,
\* nil, empty or populated, the map's keys are exactly the object's keys;
\* so it is for a map that is a struct's field.
C6_DestructiveReplace ==
  /\ (/\ pc = "decoded" /\ dst0.n = 1 /\ dst0.val # NilPtr
      /\ Kind(dst0.t) = "map" /\ Kind(Key(dst0.t)) = "string"
      /\ IsObject(data) /\ res.st = "ok") =>
       DOMAIN res.val[1].m = KeySet(data)
  /\ (/\ DecodedInto("Outer") /\ IsObject(data) /\ res.st = "ok"
      /\ "M" \in KeySet(data) /\ IsObject(Member(data, "M"))) =>
       DOMAIN res.val[1][1].m = KeySet(Member(data, "M"))

\* An object without the key "k1" was decoded into a map that held "k1".
C6_Witness ==
  /\ DecodedInto("MapSA") /\ res.st = "ok"
  /\ "k1" \in DOMAIN dst0.val[1].m
  /\ IsObject(data) /\ KeySet(data) = {"k2"}
  /\ DOMAIN res.val[1].m = {"k2"}

\* C7: a decode into a struct writes exactly the fields that are exported,
\* not tagged "-", and whose wire name is a key of the JSON object: such an
\* int field takes the member's number, every other field keeps its value.
C7_MatchedFields ==
  (/\ pc = "decoded" /\ dst0.n = 1 /\ dst0.val # NilPtr
   /\ Kind(dst0.t) = "struct" /\ IsObject(data) /\ res.st = "ok") =>
    \A i \in 1..NumField(dst0.t) :
      IF Emitted(dst0.t, i) /\ jsonFieldName(Field(dst0.t, i)) \in KeySet(data)
      THEN (/\ Kind(Field(dst0.t, i).type) = "int"
            /\ Member(data, jsonFieldName(Field(dst0.t, i)))[1] = "num") =>
             res.val[1][i] = Member(data, jsonFieldName(Field(dst0.t, i)))[2]
      ELSE res.val[1][i] = dst0.val[1][i]

\* C8: a nil destination, a destination that is not a pointer and a nil
\* pointer destination make the decode return an error; it never panics.
C8_ShapeErrors ==
  (pc = "decoded" /\ dst0 \in BadDsts) => res.st \notin {"ok", "panic"}

\* C9: encoding any map whose key kind is not string, and decoding any JSON
\* object into such a map, fails with the key error, however many entries
\* or members there are.
C9_NonStringKeys ==
  /\ (Marshalled /\ obj[1] = "MapIA") => enc.st = "err:stringify"
  /\ (DecodedInto("MapIA") /\ IsObject(data)) => res.st = "err:unstringify"

\* C9, amended: encoding a map that has at least one entry and whose key kind
\* is not string, and decoding a JSON object that has at least one member
\* into such a map, fails with the key error; with no entry the map is
\* encoded as {}, and with no member the object is decoded without error.
C9_NonStringKeysNonEmpty ==
  /\ (Marshalled /\ obj[1] = "MapIA") =>
       IF DOMAIN obj[2].m # {} THEN enc.st = "err:stringify"
       ELSE enc = Ok(JObj(<<>>))
  /\ (DecodedInto("MapIA") /\ IsObject(data)) =>
       IF Len(data[2]) > 0 THEN res.st = "err:unstringify" ELSE res.st = "ok"

\* A map of one int key was handed to the encoder.
C9_Witness ==
  /\ Marshalled /\ obj[1] = "MapIA" /\ DOMAIN obj[2].m # {}
  /\ enc.st = "err:stringify"

\* C10: a decode through a pointer to an interface that holds a value goes on
\* into the value held; the interface destination itself raises no error.
C10_BareInterface ==
  (DecodedInto("any") /\ dst0.val[1] # NilIface) => res.st # "err:notptr"

\* C11: every MarshalWithTypeIDs call and every UnmarshalWithTypeIDs call
\* ends, by returning its result or an error, whatever the value graph, a
\* graph in which a pointer or an interface leads back to an enclosing value
\* included.
C11_Termination == (wpc = "running") ~> (wpc \in {"returned", "error"})

====
